---- MODULE Spec2Model ----
(***************************************************************************)
(* silicontraffic: the movement graph (MovementRoadNet), the conflict      *)
(* query, the per-movement queue estimate (MovementsMonitor), the global   *)
(* statistics monitor (GlobalMonitor) with its auto-reset wiring, the      *)
(* engines' step(n), the SUMO lane cache, TrafficLight.uncontrolled_links  *)
(* and get_unique_port.                                                    *)
(***************************************************************************)
EXTENDS Integers, Sequences, FiniteSets, TLC

VARIABLES
    links,          \* RoadNet: the lane-links, as <<from-lane id, to-lane id>>
    grants,         \* TrafficLightPhase.available_links, per phase id
    stage,          \* "net": road net under construction, "built", "failed"
    mrn,            \* the MovementRoadNet tables once built
    lane_vehicles,  \* the engine's snapshot: the vehicles on each lane
    engines,        \* the engines: step handlers, simulation time, vehicles
    mon,            \* the GlobalMonitor's fields
    nsteps,         \* the number of engine steps taken so far
    cached_uncontrolled, \* TrafficLight._uncontrolled_links, per light id
    port_factory,   \* get_unique_port: the module's counter
    lock,           \* get_unique_port: the thread that holds the lock, if any
    calls,          \* get_unique_port: where each thread's call stands
    result          \* what the last query or call returned

graphVars == <<links, grants, stage, mrn>>
monVars == <<engines, mon, nsteps>>
portVars == <<port_factory, lock, calls>>
otherVars == <<cached_uncontrolled, port_factory, lock, calls>>
vars == <<links, grants, stage, mrn, lane_vehicles, engines, mon, nsteps,
          cached_uncontrolled, port_factory, lock, calls, result>>

----------------------------------------------------------------------------
(* Bounds of the road nets explored *)
MaxLinks == 3
MaxGrants == 3
(* Bound of the engine snapshots explored: vehicles on the lanes of e1 *)
MaxVehicles == 2

None == "None"

----------------------------------------------------------------------------
(* Generic helpers: Python lists and insertion-ordered dicts *)

RECURSIVE Flatten(_)
Flatten(ss) == IF ss = <<>> THEN <<>> ELSE Head(ss) \o Flatten(Tail(ss))

RECURSIVE FoldSeq(_, _, _)
FoldSeq(Op(_, _), acc, s) ==
    IF s = <<>> THEN acc ELSE FoldSeq(Op, Op(acc, Head(s)), Tail(s))

Range(s) == {s[i] : i \in DOMAIN s}

DictHas(d, k) == \E i \in DOMAIN d : d[i].key = k

DictGet(d, k, default) ==
    IF DictHas(d, k) THEN d[CHOOSE i \in DOMAIN d : d[i].key = k].val ELSE default

DictSet(d, k, v) ==
    IF DictHas(d, k)
    THEN [i \in DOMAIN d |-> IF d[i].key = k THEN [key |-> k, val |-> v] ELSE d[i]]
    ELSE Append(d, [key |-> k, val |-> v])

\* d.setdefault(k, []).append(v)
DictAppend(d, k, v) == DictSet(d, k, Append(DictGet(d, k, <<>>), v))

\* if v not in d[k]: d[k].append(v)
DictAppendNew(d, k, v) ==
    IF v \in Range(DictGet(d, k, <<>>)) THEN d ELSE DictAppend(d, k, v)

----------------------------------------------------------------------------
(* The road net: three edges of the edge bank, their lanes, and one lane  *)
(* (x1) whose parent edge e9 is missing from the edge bank.                *)

EdgeIds == <<"e1", "e2", "e3">>
LaneIds == <<"a1", "a2", "b1", "c1", "c2", "x1">>
EdgeLanes == [e1 |-> <<"a1", "a2">>, e2 |-> <<"b1">>, e3 |-> <<"c1", "c2">>]
ParentEdge == [a1 |-> "e1", a2 |-> "e1", b1 |-> "e2", c1 |-> "e3", c2 |-> "e3", x1 |-> "e9"]

LightIds == <<"T1", "T2">>
LightPhases == [T1 |-> <<"T1_phase_0", "T1_phase_1">>, T2 |-> <<"T2_phase_0">>]
PhaseIds == <<"T1_phase_0", "T1_phase_1", "T2_phase_0">>

LinkUniverse ==
    ({"a1"} \X {"b1", "c1", "c2", "x1"}) \cup ({"a2"} \X {"b1", "c1"})
        \cup ({"b1"} \X {"c1", "c2"})

get_edge(id) == IF id \in Range(EdgeIds) THEN id ELSE None

\* Lane.links of a lane, as to-lane ids
lane_links(lane) == SelectSeq(LaneIds, LAMBDA t : <<lane, t>> \in links)

\* phase.available_links, as links
available_links(phase) ==
    Flatten([i \in DOMAIN LaneIds |->
        LET f == LaneIds[i] IN
        LET ts == SelectSeq(LaneIds, LAMBDA t : <<f, t>> \in grants[phase]) IN
        [j \in DOMAIN ts |-> <<f, ts[j]>>]])

----------------------------------------------------------------------------
(* MovementRoadNet.build_movements *)

MovementId(m) == m.from_edge \o "_" \o m.to_edge

\* the (lane, link) pairs an edge's two loops visit, in order
EdgeLinkPairs(edge) ==
    Flatten([i \in DOMAIN EdgeLanes[edge] |->
        LET lane == EdgeLanes[edge][i] IN
        [j \in DOMAIN lane_links(lane) |-> <<lane, lane_links(lane)[j]>>]])

\* edge_lane_map: to_edge_id -> [from_lane]
edge_lane_map(edge) ==
    FoldSeq(LAMBDA d, p : DictAppend(d, ParentEdge[p[2]], p[1]), <<>>, EdgeLinkPairs(edge))

\* a plausible slip: one movement per lane-link, without grouping by to-edge
NewMovementsPerLink(edge) ==
    [i \in DOMAIN EdgeLinkPairs(edge) |->
        [from_edge |-> edge,
         to_edge |-> get_edge(ParentEdge[EdgeLinkPairs(edge)[i][2]]),
         from_lanes |-> <<EdgeLinkPairs(edge)[i][1]>>]]

\* the Movement objects created for one edge
NewMovements(edge) ==
    [i \in DOMAIN edge_lane_map(edge) |->
        [from_edge |-> edge,
         to_edge |-> get_edge(edge_lane_map(edge)[i].key),
         from_lanes |-> edge_lane_map(edge)[i].val]]

\* all Movement objects, in creation order; a movement is named by its index
AllMovements == Flatten([i \in DOMAIN EdgeIds |-> NewMovements(EdgeIds[i])])

\* Movement.__post_init__ reads to_edge.id: None has no id
BuildFails == \E i \in DOMAIN AllMovements : AllMovements[i].to_edge = None

BuildBank(ms) ==
    FoldSeq(LAMBDA d, i : DictSet(d, MovementId(ms[i]), i), <<>>, [i \in DOMAIN ms |-> i])

BuildLaneMap(ms) ==
    FoldSeq(LAMBDA d, p : DictAppend(d, p[1], p[2]), <<>>,
        Flatten([i \in DOMAIN ms |->
            [j \in DOMAIN ms[i].from_lanes |-> <<ms[i].from_lanes[j], i>>]]))

BuildFromEdgeMap(ms) ==
    FoldSeq(LAMBDA d, i : DictAppend(d, ms[i].from_edge, i), <<>>, [i \in DOMAIN ms |-> i])

\* the (light, phase, movement) triples the light loop visits, in order
ControlVisits(laneMap) ==
    Flatten([t \in DOMAIN LightIds |->
        Flatten([p \in DOMAIN LightPhases[LightIds[t]] |->
            LET ph == LightPhases[LightIds[t]][p] IN
            Flatten([k \in DOMAIN available_links(ph) |->
                LET cm == DictGet(laneMap, available_links(ph)[k][1], <<>>) IN
                [n \in DOMAIN cm |-> [tl |-> LightIds[t], phase |-> ph, m |-> cm[n]]]])])])

BuildLightMap(visits) ==
    FoldSeq(LAMBDA d, v : DictAppendNew(d, v.tl, v.m),
        [i \in DOMAIN LightIds |-> [key |-> LightIds[i], val |-> <<>>]], visits)

BuildPhaseMap(visits) ==
    FoldSeq(LAMBDA d, v : DictAppendNew(d, v.phase, v.m),
        [i \in DOMAIN PhaseIds |-> [key |-> PhaseIds[i], val |-> <<>>]], visits)

\* movement.traffic_light = traffic_light, the last assignment stands
BuildTrafficLight(ms, visits) ==
    FoldSeq(LAMBDA f, v : [f EXCEPT ![v.m] = v.tl], [i \in DOMAIN ms |-> None], visits)

EmptyNet ==
    [movements |-> <<>>, traffic_light |-> <<>>, movement_bank |-> <<>>,
     lane_movement_map |-> <<>>, from_edge_movement_map |-> <<>>,
     traffic_light_movement_map |-> <<>>, phase_movement_map |-> <<>>]

build_movements ==
    LET ms == AllMovements
        laneMap == BuildLaneMap(ms)
        visits == ControlVisits(laneMap)
    IN  [movements |-> ms,
         traffic_light |-> BuildTrafficLight(ms, visits),
         movement_bank |-> BuildBank(ms),
         lane_movement_map |-> laneMap,
         from_edge_movement_map |-> BuildFromEdgeMap(ms),
         traffic_light_movement_map |-> BuildLightMap(visits),
         phase_movement_map |-> BuildPhaseMap(visits)]

----------------------------------------------------------------------------
(* MovementRoadNet queries *)

Movements == DOMAIN mrn.movements

get_movements_by_lane(lane) == DictGet(mrn.lane_movement_map, lane, <<>>)
get_movements_by_edge(edge) == DictGet(mrn.from_edge_movement_map, edge, <<>>)
get_movements_by_traffic_light(tl) == DictGet(mrn.traffic_light_movement_map, tl, <<>>)
get_allowed_movements_by_phase(phase) == DictGet(mrn.phase_movement_map, phase, <<>>)

\* get_movement: movement_bank.get(f'{from_edge}_{to_edge}', None); the answer
\* is <<m>> for a movement m and <<>> for None
get_movement(from_edge, to_edge) ==
    LET id == from_edge \o "_" \o to_edge IN
    IF DictHas(mrn.movement_bank, id) THEN <<DictGet(mrn.movement_bank, id, 0)>> ELSE <<>>

\* a plausible slip: "or" for "and" in the phase test
NoCommonPhaseOr(tl, m, other) ==
    ~\E i \in DOMAIN LightPhases[tl] :
        \/ other \in Range(get_allowed_movements_by_phase(LightPhases[tl][i]))
        \/ m \in Range(get_allowed_movements_by_phase(LightPhases[tl][i]))

\* a plausible slip: conflict assigned anew in every turn, the last phase decides
NoCommonPhaseLast(tl, m, other) ==
    LET last == LightPhases[tl][Len(LightPhases[tl])] IN
    ~(/\ other \in Range(get_allowed_movements_by_phase(last))
      /\ m \in Range(get_allowed_movements_by_phase(last)))

\* the inner loop of get_conflict_movements: conflict stays True
NoCommonPhase(tl, m, other) ==
    ~\E i \in DOMAIN LightPhases[tl] :
        /\ other \in Range(get_allowed_movements_by_phase(LightPhases[tl][i]))
        /\ m \in Range(get_allowed_movements_by_phase(LightPhases[tl][i]))

get_conflict_movements(m) ==
    IF mrn.traffic_light[m] = None THEN <<>>
    ELSE LET tl == mrn.traffic_light[m] IN
         SelectSeq(get_movements_by_traffic_light(tl),
                   LAMBDA other : other # m /\ NoCommonPhase(tl, m, other))

----------------------------------------------------------------------------
(* Engines and the GlobalMonitor as constructed *)

EngineIds == {"E1", "E2"}
\* SiliconSumoEngine, SiliconCityFlowEngine, and an engine whose vehicle
\* snapshots carry the running flag that GlobalMonitor._on_step reads
EngineKinds == {"sumo", "cityflow", "generic"}
VehicleIds == <<"v1", "v2">>

\* a vehicle the simulation has not inserted yet, and one that has left it;
\* since is the time after the step that inserted the vehicle
Pending == [status |-> "pending", speed |-> 0, wtime |-> 0, wcount |-> 0, since |-> 0]
Gone == [status |-> "arrived", speed |-> 0, wtime |-> 0, wcount |-> 0, since |-> 0]

\* TrafficEnvEngine.__init__: no step handlers; the simulation is not started
NewEngine(kind) ==
    [kind |-> kind, step_handlers |-> <<>>, started |-> FALSE, time |-> 0,
     veh |-> [v \in Range(VehicleIds) |-> Pending], departed |-> {}, arrived |-> {}]

EmptyDict == [v \in {} |-> 0]

\* Monitor.__init__; the dictionaries and the series exist once attach_to made them
NewMonitor ==
    [auto_reset |-> FALSE, auto_reset_prev_recorded_time |-> <<>>,
     engine |-> None, attached |-> FALSE,
     vehicle_bank |-> EmptyDict, vehicle_waiting_time |-> EmptyDict,
     vehicle_stop |-> EmptyDict, vehicle_is_waiting |-> EmptyDict,
     vehicle_depart_time |-> EmptyDict, vehicle_arrive_time |-> EmptyDict,
     global_avg_queue_length |-> <<>>]

\* no engine is run while the movement graph or the queue estimate is explored
IdleMonitor ==
    /\ engines = [e \in EngineIds |-> NewEngine("sumo")]
    /\ mon = NewMonitor
    /\ nsteps = 0

----------------------------------------------------------------------------
(* The traffic lights' caches and the port counter as the modules load them *)

Threads == {"t1", "t2"}

\* road_net.py line 63: _uncontrolled_links = None
NotCached == [cached |-> FALSE, val |-> <<>>]

\* get_unique_port.py lines 3-4
FirstPortFactory == 8831

NoCall == [pc |-> "idle", returned |-> <<>>]

\* no light is asked and no port is taken while the other parts are explored
IdleOther ==
    /\ cached_uncontrolled = [t \in Range(LightIds) |-> NotCached]
    /\ port_factory = FirstPortFactory
    /\ lock = None
    /\ calls = [t \in Threads |-> NoCall]

----------------------------------------------------------------------------
(* The movement graph as a state machine *)

NoResult == [op |-> "none"]
NoVehicles == [l \in Range(LaneIds) |-> <<>>]

InitGraph ==
    /\ IdleOther
    /\ links = {}
    /\ grants = [p \in Range(PhaseIds) |-> {}]
    /\ stage = "net"
    /\ mrn = EmptyNet
    /\ lane_vehicles = NoVehicles
    /\ IdleMonitor
    /\ result = NoResult

\* the loader adds a lane-link to its from-lane
AddLink(l) ==
    /\ stage = "net"
    /\ l \notin links
    /\ Cardinality(links) < MaxLinks
    /\ links' = links \cup {l}
    /\ UNCHANGED <<otherVars, grants, stage, mrn, lane_vehicles, monVars, result>>

NumGrants == FoldSeq(LAMBDA n, p : n + Cardinality(grants[p]), 0, PhaseIds)

\* the loader lists an existing lane-link among a phase's available links
GrantLink(p, l) ==
    /\ stage = "net"
    /\ l \in links
    /\ l \notin grants[p]
    /\ NumGrants < MaxGrants
    /\ grants' = [grants EXCEPT ![p] = @ \cup {l}]
    /\ UNCHANGED <<otherVars, links, stage, mrn, lane_vehicles, monVars, result>>

\* the exception the constructor ends with, if any: None.id in __post_init__
BuildError == IF BuildFails THEN "AttributeError" ELSE None

\* MovementRoadNet(road_net)
Build ==
    /\ stage = "net"
    /\ IF BuildFails
       THEN stage' = "failed" /\ mrn' = EmptyNet
       ELSE stage' = "built" /\ mrn' = build_movements
    /\ result' = [op |-> "build", err |-> BuildError]
    /\ UNCHANGED <<otherVars, links, grants, lane_vehicles, monVars>>

QueryConflict(m) ==
    /\ stage = "built"
    /\ result' = [op |-> "conflict", m |-> m, out |-> get_conflict_movements(m)]
    /\ UNCHANGED <<otherVars, graphVars, lane_vehicles, monVars>>

\* the ids asked for: ids of the road net and ids it does not have
LookupEdgeIds == Range(EdgeIds) \cup {"e9"}
LookupIds == {"a1", "e1", "T1", "T1_phase_0", "zz"}

\* get_movement(from_edge, to_edge); it raises nothing
QueryMovement(f, t) ==
    /\ stage = "built"
    /\ result' = [op |-> "get_movement", from_edge |-> f, to_edge |-> t,
                  err |-> None, out |-> get_movement(f, t)]
    /\ UNCHANGED <<otherVars, graphVars, lane_vehicles, monVars>>

\* the four collection queries asked with one id
QueryCollections(id) ==
    /\ stage = "built"
    /\ result' = [op |-> "collections", id |-> id,
                  by_lane |-> get_movements_by_lane(id),
                  by_edge |-> get_movements_by_edge(id),
                  by_traffic_light |-> get_movements_by_traffic_light(id),
                  by_phase |-> get_allowed_movements_by_phase(id)]
    /\ UNCHANGED <<otherVars, graphVars, lane_vehicles, monVars>>

NextGraph ==
    \/ \E l \in LinkUniverse : AddLink(l)
    \/ \E p \in Range(PhaseIds), l \in LinkUniverse : GrantLink(p, l)
    \/ Build
    \/ \E m \in Movements : QueryConflict(m)

SpecGraph == InitGraph /\ [][NextGraph]_vars

----------------------------------------------------------------------------
(* Claims about the movement graph *)

EdgePair(m) == <<mrn.movements[m].from_edge, mrn.movements[m].to_edge>>

\* C1: after build_movements no two distinct Movements of the movement graph
\* have the same ordered (from-edge id, to-edge id) pair.
C1_UniqueEdgePair ==
    stage = "built" =>
        \A i, j \in Movements : i # j => EdgePair(i) # EdgePair(j)

\* C1 witness: a built graph with two movements, one of which folds two
\* lane-links of its from-edge into one Movement.
C1_Witness ==
    /\ stage = "built"
    /\ Cardinality(Movements) >= 2
    /\ \E e \in Range(EdgeIds), t \in Range(EdgeIds) :
          Cardinality({l \in links : ParentEdge[l[1]] = e /\ ParentEdge[l[2]] = t}) >= 2

\* the reference conflict set of C2: nothing without a controlling light,
\* otherwise the other movements listed under m's light that no phase of that
\* light allows together with m
ReferenceConflicts(m) ==
    IF mrn.traffic_light[m] = None THEN {}
    ELSE LET tl == mrn.traffic_light[m] IN
         {m2 \in Range(get_movements_by_traffic_light(tl)) \ {m} :
             \A p \in Range(LightPhases[tl]) :
                 ~({m, m2} \subseteq Range(get_allowed_movements_by_phase(p)))}

\* C2: get_conflict_movements(m) is the reference conflict set of m, each
\* member listed once.
C2_ConflictsAreReference ==
    result.op = "conflict" =>
        /\ Range(result.out) = ReferenceConflicts(result.m)
        /\ Len(result.out) = Cardinality(Range(result.out))

\* C2 witness: a conflict query on a controlled movement that returned some
\* movements of the light and left out another one, allowed together with it.
C2_Witness ==
    /\ result.op = "conflict"
    /\ mrn.traffic_light[result.m] # None
    /\ result.out # <<>>
    /\ \E m2 \in Range(get_movements_by_traffic_light(mrn.traffic_light[result.m])) :
          m2 # result.m /\ m2 \notin Range(result.out)

\* C3: for all movements m1, m2 with a controlling light, m1 is not in
\* get_conflict_movements(m1), and m2 is in get_conflict_movements(m1) iff m1
\* is in get_conflict_movements(m2), also when several lights grant the lanes
\* of one movement.
C3_IrreflexiveSymmetric ==
    (result.op = "conflict" /\ mrn.traffic_light[result.m] # None) =>
        /\ result.m \notin Range(result.out)
        /\ \A m2 \in Movements :
              mrn.traffic_light[m2] # None =>
                  (m2 \in Range(result.out)
                      <=> result.m \in Range(get_conflict_movements(m2)))

\* the scenario of C4: light T1 has exactly two phases, phase 0 allows exactly
\* A and B, phase 1 allows exactly C, and T1 controls all three
TwoPhaseScenario(A, B, C) ==
    /\ Cardinality({A, B, C}) = 3
    /\ Len(LightPhases["T1"]) = 2
    /\ Range(get_allowed_movements_by_phase("T1_phase_0")) = {A, B}
    /\ Range(get_allowed_movements_by_phase("T1_phase_1")) = {C}
    /\ \A m \in {A, B, C} :
          /\ mrn.traffic_light[m] = "T1"
          /\ m \in Range(get_movements_by_traffic_light("T1"))

\* C4 as stated: in the two-phase scenario get_conflict_movements(A) is empty
\* and get_conflict_movements(C) is exactly {A, B}.
C4_Original ==
    result.op = "conflict" =>
        \A A, B, C \in Movements :
            TwoPhaseScenario(A, B, C) =>
                /\ result.m = A => Range(result.out) = {}
                /\ result.m = C => Range(result.out) = {A, B}

\* C4 amended: in the two-phase scenario get_conflict_movements(A) is exactly
\* {C} (B, allowed together with A in phase 0, is not in it) and
\* get_conflict_movements(C) is exactly {A, B}.
C4_Amended ==
    result.op = "conflict" =>
        \A A, B, C \in Movements :
            TwoPhaseScenario(A, B, C) =>
                /\ result.m = A => Range(result.out) = {C}
                /\ result.m = C => Range(result.out) = {A, B}

\* C4 witness: the scenario holds and the conflicts of C were asked for.
C4_Witness ==
    /\ result.op = "conflict"
    /\ \E A, B, C \in Movements : TwoPhaseScenario(A, B, C) /\ result.m = C

\* C14: asked with an id the movement graph does not know, the collection
\* queries return an empty collection, and get_movement signals an explicit
\* not-found error when no movement exists for the edge pair.
C14_UnknownIdLookups ==
    /\ (result.op = "collections" /\ result.id \notin Range(LaneIds)) =>
           result.by_lane = <<>>
    /\ (result.op = "collections" /\ result.id \notin Range(EdgeIds)) =>
           result.by_edge = <<>>
    /\ (result.op = "collections" /\ result.id \notin Range(LightIds)) =>
           result.by_traffic_light = <<>>
    /\ (result.op = "collections" /\ result.id \notin Range(PhaseIds)) =>
           result.by_phase = <<>>
    /\ (/\ result.op = "get_movement"
        /\ ~\E m \in Movements : EdgePair(m) = <<result.from_edge, result.to_edge>>) =>
           result.err = "NotFoundError"

\* a lane-link of the road net leads to a lane whose edge is not in the edge bank
HasLinkToMissingEdge == \E l \in links : ParentEdge[l[2]] \notin Range(EdgeIds)

\* C13: building the movement graph of a road net in which the to-lane of some
\* lane-link belongs to an edge absent from the edge bank fails with the
\* graph-consistency error and produces no movement graph.
C13_MissingEdgeFailsBuild ==
    (result.op = "build" /\ HasLinkToMissingEdge) =>
        /\ stage = "failed"
        /\ mrn = EmptyNet
        /\ result.err = "GraphConsistencyError"

----------------------------------------------------------------------------
(* The engine snapshot and MovementsMonitor.get_movement_sum_queue_length *)

\* speeds are counted in hundredths of a distance unit per time unit
SpeedThreshold == 10

VehiclePositions == {1, 2}
VehicleSpeeds == {0, SpeedThreshold}
VehicleRoutes == {<<"e1">>, <<"e1", "e2">>, <<"e1", "e3">>, <<"e2", "e3">>}
Vehicles == [lane_position : VehiclePositions, speed : VehicleSpeeds, route : VehicleRoutes]
VehicleLanes == {"a1", "a2"}
QueueLinkUniverse == {<<"a1", "b1">>, <<"a1", "c1">>, <<"a1", "c2">>, <<"a2", "c1">>}
\* the road nets the queue estimate is tried on: lane a1 leads to edge e3
QueueNets == {n \in SUBSET QueueLinkUniverse : <<"a1", "c1">> \in n}

\* what a call gives: a number, or the exception it raises
Returns(n) == [err |-> None, n |-> n]
Raises(e) == [err |-> e, n |-> 0]
ValueError == Raises("ValueError")
AttributeError == Raises("AttributeError")
IsError(x) == x.err # None

\* TrafficEnvEngine.get_lane_queue_length with the default threshold
get_lane_queue_length(lane) ==
    Len(SelectSeq(lane_vehicles[lane], LAMBDA v : v.speed < SpeedThreshold))

\* list.index: the first place of x in s
IndexOf(s, x) == CHOOSE i \in DOMAIN s : s[i] = x /\ \A j \in 1..(i - 1) : s[j] # x

\* max(vehicles, key=lane_position): the first vehicle of greatest position
FirstMax(vs) ==
    CHOOSE i \in DOMAIN vs :
        /\ \A j \in DOMAIN vs : vs[j].lane_position <= vs[i].lane_position
        /\ \A j \in 1..(i - 1) : vs[j].lane_position < vs[i].lane_position

RemoveAt(s, i) == SubSeq(s, 1, i - 1) \o SubSeq(s, i + 1, Len(s))

\* sorted(vehicles, key=lambda v: -v.lane_position): stable, greatest first
RECURSIVE SortedByPosition(_)
SortedByPosition(vs) ==
    IF vs = <<>> THEN <<>>
    ELSE <<vs[FirstMax(vs)]>> \o SortedByPosition(RemoveAt(vs, FirstMax(vs)))

\* lines 77-80: the lane's queue goes to the movement the vehicle takes next
Attribute(m, v, q) ==
    IF v.route[IndexOf(v.route, mrn.movements[m].from_edge) + 1] = mrn.movements[m].to_edge
    THEN Returns(q) ELSE Returns(0)

\* lines 63-72: the vehicles behind the front one, in turn; the error at line 65
\* formats first_vehicle.id while first_vehicle is None
RECURSIVE Fallback(_, _, _)
Fallback(m, rest, q) ==
    IF rest = <<>> THEN Returns(0)
    ELSE LET v == Head(rest) IN
         IF mrn.movements[m].from_edge \notin Range(v.route) THEN AttributeError
         ELSE IF IndexOf(v.route, mrn.movements[m].from_edge) < Len(v.route)
              THEN Attribute(m, v, q)
              ELSE Fallback(m, Tail(rest), q)

\* line 40: num_movements == 1
IsExclusiveLane(lane) == Len(get_movements_by_lane(lane)) = 1

\* a plausible slip: the front vehicle decides even on its last edge
SharedLaneNoFallback(m, lane) ==
    LET vs == lane_vehicles[lane]
        q == get_lane_queue_length(lane)
        first == vs[FirstMax(vs)]
    IN  IF mrn.movements[m].from_edge \notin Range(first.route) THEN ValueError
        ELSE IF IndexOf(first.route, mrn.movements[m].from_edge) = Len(first.route)
             THEN Returns(0)
             ELSE Attribute(m, first, q)

\* lines 43-80: a lane with a queue that feeds several movements
SharedLane(m, lane) ==
    LET vs == lane_vehicles[lane]
        q == get_lane_queue_length(lane)
        first == vs[FirstMax(vs)]
    IN  IF mrn.movements[m].from_edge \notin Range(first.route) THEN ValueError
        ELSE IF IndexOf(first.route, mrn.movements[m].from_edge) = Len(first.route)
             THEN Fallback(m, Tail(SortedByPosition(vs)), q)
             ELSE Attribute(m, first, q)

\* one turn of the loop over movement.from_lanes: what the lane adds, or the error
LaneContribution(m, lane) ==
    IF get_lane_queue_length(lane) = 0 THEN Returns(0)
    ELSE IF IsExclusiveLane(lane) THEN Returns(get_lane_queue_length(lane))
    ELSE SharedLane(m, lane)

\* the contributions of the lanes visited, up to the first error
RECURSIVE Contributions(_, _)
Contributions(m, lanes) ==
    IF lanes = <<>> THEN <<>>
    ELSE LET c == LaneContribution(m, Head(lanes)) IN
         IF IsError(c) THEN <<c>> ELSE <<c>> \o Contributions(m, Tail(lanes))

get_movement_sum_queue_length(m) ==
    LET cs == Contributions(m, mrn.movements[m].from_lanes) IN
    IF \E i \in DOMAIN cs : IsError(cs[i])
    THEN cs[Len(cs)]
    ELSE Returns(FoldSeq(LAMBDA a, b : a + b.n, 0, cs))

----------------------------------------------------------------------------
(* The queue estimate as a state machine *)

InitQueue ==
    /\ IdleOther
    /\ links \in QueueNets
    /\ grants = [p \in Range(PhaseIds) |-> {}]
    /\ stage = "net"
    /\ mrn = EmptyNet
    /\ lane_vehicles = NoVehicles
    /\ IdleMonitor
    /\ result = NoResult

NumVehicles == FoldSeq(LAMBDA n, l : n + Len(lane_vehicles[l]), 0, LaneIds)

\* the engine's snapshot lists one more vehicle on a lane
VehicleOnLane(lane, v) ==
    /\ stage = "built"
    /\ NumVehicles < MaxVehicles
    /\ lane_vehicles' = [lane_vehicles EXCEPT ![lane] = Append(@, v)]
    /\ result' = NoResult   \* an earlier answer was about the earlier snapshot
    /\ UNCHANGED <<otherVars, graphVars, monVars>>

QuerySumQueueLength(m) ==
    /\ stage = "built"
    /\ result' = [op |-> "sum_queue", m |-> m,
                  lanes |-> Contributions(m, mrn.movements[m].from_lanes),
                  out |-> get_movement_sum_queue_length(m)]
    /\ UNCHANGED <<otherVars, graphVars, lane_vehicles, monVars>>

NextQueue ==
    \/ Build
    \/ \E l \in VehicleLanes, v \in Vehicles : VehicleOnLane(l, v)
    \/ \E m \in Movements : QuerySumQueueLength(m)

SpecQueue == InitQueue /\ [][NextQueue]_vars

\* the lookups of the movement graph, asked on the road nets of the queue estimate
NextLookup ==
    \/ \E p \in Range(PhaseIds), l \in LinkUniverse : GrantLink(p, l)
    \/ Build
    \/ \E f, t \in LookupEdgeIds : QueryMovement(f, t)
    \/ \E id \in LookupIds : QueryCollections(id)

SpecLookup == InitQueue /\ [][NextLookup]_vars

----------------------------------------------------------------------------
(* Claims about the queue estimate *)

FromLanes(m) == mrn.movements[m].from_lanes
FromEdge(m) == mrn.movements[m].from_edge
ToEdge(m) == mrn.movements[m].to_edge

\* the movements that originate from a lane
MovementsFrom(lane) == Range(get_movements_by_lane(lane))

Queued(lane) == {i \in DOMAIN lane_vehicles[lane] : lane_vehicles[lane][i].speed < SpeedThreshold}

\* the queued vehicles of greatest lane_position
FrontQueued(lane) ==
    {i \in Queued(lane) :
        \A j \in Queued(lane) :
            lane_vehicles[lane][j].lane_position <= lane_vehicles[lane][i].lane_position}

HasNextEdge(v, e) == e \in Range(v.route) /\ IndexOf(v.route, e) < Len(v.route)
NextEdge(v, e) == v.route[IndexOf(v.route, e) + 1]

\* C5: on a lane of m that feeds several movements and has a queue, the
\* candidate is the queued vehicle of greatest lane_position; when its route
\* has a next edge after m's from-edge, the lane contributes its full queue
\* length if that edge is m's to-edge and zero otherwise.
C5_FrontQueuedVehicleDecides ==
    result.op = "sum_queue" =>
        \A i \in DOMAIN result.lanes :
            LET lane == FromLanes(result.m)[i] IN
            (Cardinality(MovementsFrom(lane)) > 1 /\ Queued(lane) # {}) =>
                \E c \in FrontQueued(lane) :
                    LET v == lane_vehicles[lane][c] IN
                    HasNextEdge(v, FromEdge(result.m)) =>
                        result.lanes[i] =
                            Returns(IF NextEdge(v, FromEdge(result.m)) = ToEdge(result.m)
                                    THEN Cardinality(Queued(lane)) ELSE 0)

\* C6: a lane of m with no queue contributes zero, and a lane from which
\* exactly one movement originates contributes its full queue length.
C6_EmptyAndExclusiveLanes ==
    result.op = "sum_queue" =>
        \A i \in DOMAIN result.lanes :
            LET lane == FromLanes(result.m)[i] IN
            /\ Queued(lane) = {} => result.lanes[i] = Returns(0)
            /\ Cardinality(MovementsFrom(lane)) = 1 =>
                   result.lanes[i] = Returns(Cardinality(Queued(lane)))

\* the vehicles examined on a shared lane: the front one and, while the one
\* examined has m's from-edge as the last entry of its route, the next one
RECURSIVE ExaminedPrefix(_, _)
ExaminedPrefix(sorted, e) ==
    IF sorted = <<>> THEN {}
    ELSE {Head(sorted)} \cup
         (IF e \in Range(Head(sorted).route) /\ ~HasNextEdge(Head(sorted), e)
          THEN ExaminedPrefix(Tail(sorted), e) ELSE {})

\* C7: when a vehicle examined on a shared lane has a route without m's
\* from-edge, get_movement_sum_queue_length fails with the route-inconsistency
\* error (ValueError); it fails with no other kind of error.
C7_RouteInconsistencyError ==
    result.op = "sum_queue" =>
        \A i \in DOMAIN result.lanes :
            LET lane == FromLanes(result.m)[i] IN
            (/\ Cardinality(MovementsFrom(lane)) > 1
             /\ Queued(lane) # {}
             /\ \E v \in ExaminedPrefix(SortedByPosition(lane_vehicles[lane]), FromEdge(result.m)) :
                    FromEdge(result.m) \notin Range(v.route))
                => result.out = ValueError

----------------------------------------------------------------------------
(* The engines: one simulation step, and what the monitor reads from them *)

\* bound of the runs explored: engine steps taken, over all engines
MaxSteps == 3

\* what the simulation may do with a vehicle in one step: v1 is inserted
\* halting or moving, v2 is inserted halting after v1 was, and stays halting
Outcomes(eng, v) ==
    CASE eng.veh[v].status = "pending" ->
             IF v = "v1" THEN {"stay", "slow", "fast"}
             ELSE IF eng.veh["v1"].status = "pending" THEN {"stay"} ELSE {"stay", "slow"}
      [] eng.veh[v].status = "running" ->
             IF v = "v1" THEN {"slow", "fast", "arrive"} ELSE {"slow", "arrive"}
      [] OTHER -> {"stay"}

Choices(eng) ==
    {ch \in [Range(VehicleIds) -> {"stay", "slow", "fast", "arrive"}] :
        \A v \in Range(VehicleIds) : ch[v] \in Outcomes(eng, v)}

\* the simulator moves one vehicle; SUMO's tripinfo device counts the steps
\* spent below the waiting speed and the times the vehicle came to a halt
MoveVehicle(kind, veh, c) ==
    CASE c = "stay" -> veh
      [] c = "arrive" -> Gone
      [] OTHER ->
            LET speed == IF c = "slow" THEN 0 ELSE SpeedThreshold
                waits == speed < SpeedThreshold
                waited == veh.status = "running" /\ veh.speed < SpeedThreshold
            IN  [status |-> "running", speed |-> speed,
                 wtime |-> IF kind = "sumo" /\ waits THEN veh.wtime + 1 ELSE veh.wtime,
                 wcount |-> IF kind = "sumo" /\ waits /\ ~waited
                            THEN veh.wcount + 1 ELSE veh.wcount,
                 since |-> veh.since]

\* _simulation_step(): the simulation advances by one step
Simulate(eng, ch) ==
    [eng EXCEPT
        !.time = @ + 1,
        !.veh = [v \in Range(VehicleIds) |->
                    IF eng.veh[v].status = "pending" /\ ch[v] \in {"slow", "fast"}
                    THEN [MoveVehicle(eng.kind, eng.veh[v], ch[v]) EXCEPT !.since = eng.time + 1]
                    ELSE MoveVehicle(eng.kind, eng.veh[v], ch[v])],
        !.departed = {v \in Range(VehicleIds) :
                         eng.veh[v].status = "pending" /\ ch[v] \in {"slow", "fast"}},
        !.arrived = {v \in Range(VehicleIds) : ch[v] = "arrive"}]

\* reset(): a new simulation; the step handlers stay registered
EngineRestart(eng) ==
    [eng EXCEPT !.started = TRUE, !.time = 0,
                !.veh = [v \in Range(VehicleIds) |-> Pending],
                !.departed = {}, !.arrived = {}]

\* get_lane_vehicle_ids: the vehicles of the simulation drive on lane a1
EngineLaneVehicleIds(eng, lane) ==
    IF lane = "a1"
    THEN SelectSeq(VehicleIds, LAMBDA v : eng.veh[v].status = "running")
    ELSE <<>>

\* vehicle_info of an engine whose vehicle snapshot carries the running flag
GenericVehicleInfo(eng, v) ==
    [err |-> None, has_running |-> TRUE, running |-> TRUE, speed |-> eng.veh[v].speed]

\* get_vehicle_info: the SUMO engine answers from its cache with a Vehicle,
\* which has no running attribute; the CityFlow engine passes running= to
\* Vehicle(), which takes no such argument
get_vehicle_info(eng, v) ==
    CASE eng.kind = "sumo" ->
             [err |-> None, has_running |-> FALSE, running |-> TRUE, speed |-> eng.veh[v].speed]
      [] eng.kind = "cityflow" ->
             [err |-> "TypeError", has_running |-> FALSE, running |-> TRUE, speed |-> 0]
      [] OTHER -> GenericVehicleInfo(eng, v)

\* TrafficEnvEngine.get_lane_queue_length on an engine
EngineLaneQueueLength(eng, lane) ==
    LET ids == EngineLaneVehicleIds(eng, lane) IN
    IF \E i \in DOMAIN ids : get_vehicle_info(eng, ids[i]).err # None
    THEN Raises("TypeError")
    ELSE Returns(Len(SelectSeq(ids, LAMBDA v : get_vehicle_info(eng, v).speed < SpeedThreshold)))

\* sum([get_lane_queue_length(lane) for lane in road_net.lanes])
SumQueueLength(eng) ==
    FoldSeq(LAMBDA acc, lane :
                IF IsError(acc) THEN acc
                ELSE LET q == EngineLaneQueueLength(eng, lane) IN
                     IF IsError(q) THEN q ELSE Returns(acc.n + q.n),
            Returns(0), LaneIds)

----------------------------------------------------------------------------
(* Monitor.setup_auto_reset and GlobalMonitor *)

\* d[k] = x
Put(d, k, x) == [v \in DOMAIN d \cup {k} |-> IF v = k THEN x ELSE d[v]]

\* the entries of the per-vehicle accumulators, as <<accumulator, vehicle id>>
Entries(m) ==
    ({"waiting_time"} \X DOMAIN m.vehicle_waiting_time)
    \cup ({"stop"} \X DOMAIN m.vehicle_stop)
    \cup ({"is_waiting"} \X DOMAIN m.vehicle_is_waiting)
    \cup ({"depart_time"} \X DOMAIN m.vehicle_depart_time)
    \cup ({"arrive_time"} \X DOMAIN m.vehicle_arrive_time)

\* a plausible slip: one of the dictionaries is left out of the reset
ResetKeepsStops(m) ==
    [m EXCEPT !.vehicle_bank = EmptyDict,
              !.vehicle_waiting_time = EmptyDict,
              !.vehicle_is_waiting = EmptyDict,
              !.vehicle_depart_time = EmptyDict,
              !.vehicle_arrive_time = EmptyDict]

\* GlobalMonitor.reset
reset(m) ==
    [m EXCEPT !.vehicle_bank = EmptyDict,
              !.vehicle_waiting_time = EmptyDict,
              !.vehicle_stop = EmptyDict,
              !.vehicle_is_waiting = EmptyDict,
              !.vehicle_depart_time = EmptyDict,
              !.vehicle_arrive_time = EmptyDict]

\* a plausible slip: every setup is taken for the first one
AutoResetNeverSetUp(m) == FALSE

\* line 27: if self._auto_reset
AutoResetIsSetUp(m) == m.auto_reset

\* a plausible slip: the comparison of line 36 turned round
TimeWentForward(prev, curr) == prev # <<>> /\ curr > prev[1]

\* line 36: a time was recorded and the current time is smaller
TimeWentBack(prev, curr) == prev # <<>> /\ curr < prev[1]

\* the run of the handlers of one step: the monitor, the exception raised if
\* any, the handlers that ran, and the entries the statistics handler found
Running(m) == [mon |-> m, err |-> None, log |-> <<>>, carried |-> {}]
Fail(st, e) == [st EXCEPT !.err = e]

\* _reset_monitor, the handler setup_auto_reset registers on engine e0;
\* reset() needs the dictionaries attach_to creates
reset_monitor(st, engs, e0) ==
    LET curr_time == engs[e0].time IN
    IF TimeWentBack(st.mon.auto_reset_prev_recorded_time, curr_time)
    THEN IF ~st.mon.attached THEN Fail(st, "AttributeError")
         ELSE [st EXCEPT !.mon = [reset(st.mon) EXCEPT
                                     !.auto_reset_prev_recorded_time = <<curr_time>>],
                         !.log = Append(@, "reset")]
    ELSE [st EXCEPT !.mon.auto_reset_prev_recorded_time = <<curr_time>>]

\* lines 48-75 of _on_step: one vehicle listed on a lane
OnStepVehicle(eng, st, v) ==
    IF st.err # None THEN st
    ELSE
    LET info == get_vehicle_info(eng, v)
        m == st.mon
        curr_time == eng.time
    IN  IF info.err # None THEN Fail(st, info.err)
        ELSE IF ~info.has_running THEN Fail(st, "AttributeError")
        ELSE IF ~info.running
        THEN IF v \in DOMAIN m.vehicle_depart_time /\ v \notin DOMAIN m.vehicle_arrive_time
             THEN [st EXCEPT !.mon.vehicle_arrive_time = Put(@, v, curr_time)]
             ELSE st
        ELSE IF v \notin DOMAIN m.vehicle_bank
        THEN [st EXCEPT !.mon =
                [m EXCEPT !.vehicle_bank = Put(@, v, info.speed),
                          !.vehicle_waiting_time = Put(@, v, 0),
                          !.vehicle_stop = Put(@, v, 0),
                          !.vehicle_is_waiting = Put(@, v, FALSE),
                          !.vehicle_depart_time = Put(@, v, curr_time)]]
        ELSE LET prev_waiting == m.vehicle_is_waiting[v]
                 curr_waiting == info.speed < SpeedThreshold
             IN  [st EXCEPT !.mon =
                    [m EXCEPT !.vehicle_bank = Put(@, v, info.speed),
                              !.vehicle_stop =
                                  Put(@, v, @[v] + IF ~prev_waiting /\ curr_waiting THEN 1 ELSE 0),
                              !.vehicle_waiting_time =
                                  Put(@, v, @[v] + IF curr_waiting THEN 1 ELSE 0),
                              !.vehicle_is_waiting = Put(@, v, curr_waiting)]]

\* lines 78-80 and 114-116: the step's queue length summed over the lanes is
\* appended; the series holds the sums, each to be divided by len(lanes)
LaneBasedStats(eng, st) ==
    IF st.err # None THEN st
    ELSE LET q == SumQueueLength(eng) IN
         IF IsError(q) THEN Fail(st, q.err)
         ELSE [st EXCEPT !.mon.global_avg_queue_length = Append(@, q.n)]

\* GlobalMonitor._on_step, reading the engine the monitor refers to
on_step(st, engs) ==
    LET eng == engs[st.mon.engine]
        entered == [st EXCEPT !.log = Append(@, "stats"), !.carried = Entries(st.mon)]
    IN  IF ~eng.started THEN Fail(entered, "AttributeError")
        ELSE LaneBasedStats(eng,
                 FoldSeq(LAMBDA s, v : OnStepVehicle(eng, s, v), entered,
                         Flatten([i \in DOMAIN LaneIds |-> EngineLaneVehicleIds(eng, LaneIds[i])])))

\* GlobalMonitor._on_step_sumo; getDeparture gives the time at which the
\* step that inserted the vehicle began
on_step_sumo(st, engs) ==
    LET eng == engs[st.mon.engine]
        entered == [st EXCEPT !.log = Append(@, "stats"), !.carried = Entries(st.mon)]
        m == st.mon
        curr_time == eng.time
        reachable == {v \in Range(VehicleIds) : eng.veh[v].status = "running"}
    IN  IF ~eng.started THEN Fail(entered, "AttributeError")
        ELSE IF eng.kind # "sumo" THEN Fail(entered, "AssertionError")
        ELSE LaneBasedStats(eng,
               [entered EXCEPT !.mon =
                 [m EXCEPT
                    !.vehicle_depart_time =
                        [v \in DOMAIN @ \cup eng.departed |->
                            IF v \in DOMAIN @ THEN @[v] ELSE curr_time - 1],
                    !.vehicle_arrive_time =
                        [v \in DOMAIN @ \cup eng.arrived |->
                            IF v \in eng.arrived THEN curr_time ELSE @[v]],
                    !.vehicle_waiting_time =
                        [v \in DOMAIN @ \cup reachable |->
                            IF v \in reachable THEN eng.veh[v].wtime ELSE @[v]],
                    !.vehicle_stop =
                        [v \in DOMAIN @ \cup reachable |->
                            IF v \in reachable THEN eng.veh[v].wcount ELSE @[v]]]])

\* one registered handler is called
CallHandler(st, h, engs) ==
    IF st.err # None THEN st
    ELSE CASE h.fn = "_reset_monitor" -> reset_monitor(st, engs, h.engine)
           [] h.fn = "_on_step_sumo" -> on_step_sumo(st, engs)
           [] OTHER -> on_step(st, engs)

\* TrafficEnvEngine.on_step
RegisterHandler(engs, e, h) == [engs EXCEPT ![e].step_handlers = Append(@, h)]

\* Monitor.setup_auto_reset(engine)
setup_auto_reset(m, engs, e) ==
    IF AutoResetIsSetUp(m)
    THEN [mon |-> m, engines |-> engs, err |-> "RuntimeError"]
    ELSE [mon |-> [m EXCEPT !.auto_reset = TRUE, !.auto_reset_prev_recorded_time = <<>>],
          engines |-> RegisterHandler(engs, e, [fn |-> "_reset_monitor", engine |-> e]),
          err |-> None]

\* GlobalMonitor.attach_to(engine)
attach_to(m, engs, e) ==
    LET s == setup_auto_reset([m EXCEPT !.engine = e], engs, e) IN
    IF s.err # None THEN s
    ELSE [mon |-> [reset(s.mon) EXCEPT !.attached = TRUE, !.global_avg_queue_length = <<>>],
          engines |-> RegisterHandler(s.engines, e,
                          [fn |-> IF engs[e].kind = "sumo" THEN "_on_step_sumo" ELSE "_on_step",
                           engine |-> None]),
          err |-> None]

\* a mean as the fraction num/den; 0.0 when nothing was recorded
Mean(sum, n) == IF n > 0 THEN [num |-> sum, den |-> n] ELSE [num |-> 0, den |-> 1]

SumValues(d) == FoldSeq(LAMBDA a, v : IF v \in DOMAIN d THEN a + d[v] ELSE a, 0, VehicleIds)

get_avg_waiting_time(m) ==
    Mean(SumValues(m.vehicle_waiting_time), Cardinality(DOMAIN m.vehicle_waiting_time))

get_avg_stop_times(m) ==
    Mean(SumValues(m.vehicle_stop), Cardinality(DOMAIN m.vehicle_stop))

get_avg_travel_time(m) ==
    LET effective == DOMAIN m.vehicle_arrive_time \cap DOMAIN m.vehicle_depart_time IN
    Mean(FoldSeq(LAMBDA a, v : IF v \in effective
                               THEN a + (m.vehicle_arrive_time[v] - m.vehicle_depart_time[v])
                               ELSE a, 0, VehicleIds),
         Cardinality(effective))

\* each entry of the series is a sum over the lanes divided by len(lanes)
get_avg_queue_length(m) ==
    Mean(FoldSeq(LAMBDA a, q : a + q, 0, m.global_avg_queue_length),
         Len(LaneIds) * Len(m.global_avg_queue_length))

----------------------------------------------------------------------------
(* Engines and monitor as a state machine *)

\* the engines that are run; the other one is only attached to
SteppedEngines == {"E1"}

InitMonitor ==
    /\ IdleOther
    /\ links = {}
    /\ grants = [p \in Range(PhaseIds) |-> {}]
    /\ stage = "net"
    /\ mrn = EmptyNet
    /\ lane_vehicles = NoVehicles
    /\ \E k \in EngineKinds :
           engines = [e \in EngineIds |-> NewEngine(IF e = "E1" THEN k ELSE "sumo")]
    /\ mon = NewMonitor
    /\ nsteps = 0
    /\ result = NoResult

\* the step handlers registered, over all engines
NumHandlers(engs) == Len(engs["E1"].step_handlers) + Len(engs["E2"].step_handlers)

\* monitor.setup_auto_reset(engine)
SetupAutoReset(e) ==
    LET s == setup_auto_reset(mon, engines, e) IN
    /\ mon' = s.mon
    /\ engines' = s.engines
    /\ result' = [op |-> "setup_auto_reset", engine |-> e, err |-> s.err,
                  was_set_up |-> mon.auto_reset,
                  registered |-> NumHandlers(s.engines) - NumHandlers(engines)]
    /\ UNCHANGED <<otherVars, graphVars, lane_vehicles, nsteps>>

\* monitor.attach_to(engine)
AttachTo(e) ==
    LET s == attach_to(mon, engines, e) IN
    /\ mon' = s.mon
    /\ engines' = s.engines
    /\ result' = [op |-> "attach_to", engine |-> e, err |-> s.err,
                  was_set_up |-> mon.auto_reset, mon_before |-> mon,
                  registered |-> NumHandlers(s.engines) - NumHandlers(engines)]
    /\ UNCHANGED <<otherVars, graphVars, lane_vehicles, nsteps>>

\* monitor.reset(); before attach_to there is no dictionary to clear
Reset ==
    /\ IF mon.attached
       THEN mon' = reset(mon) /\ result' = [op |-> "reset", err |-> None]
       ELSE mon' = mon /\ result' = [op |-> "reset", err |-> "AttributeError"]
    /\ UNCHANGED <<otherVars, graphVars, lane_vehicles, engines, nsteps>>

\* engine.reset()
EngineReset(e) ==
    /\ engines' = [engines EXCEPT ![e] = EngineRestart(@)]
    /\ result' = [op |-> "engine_reset", engine |-> e]
    /\ UNCHANGED <<otherVars, graphVars, lane_vehicles, mon, nsteps>>

\* engine.step(): the simulation advances, then the handlers are called in
\* the order of their registration, up to the first that raises
EngineStep(e) ==
    /\ engines[e].started
    /\ nsteps < MaxSteps
    /\ \E ch \in Choices(engines[e]) :
           LET engs == [engines EXCEPT ![e] = Simulate(@, ch)]
               run == FoldSeq(LAMBDA st, h : CallHandler(st, h, engs),
                              Running(mon), engs[e].step_handlers)
           IN  /\ engines' = engs
               /\ mon' = run.mon
               /\ result' = [op |-> "step", engine |-> e, err |-> run.err,
                             prev_time |-> mon.auto_reset_prev_recorded_time,
                             time |-> engs[e].time,
                             before |-> Entries(mon),
                             waiting_time_before |-> mon.vehicle_waiting_time,
                             stop_before |-> mon.vehicle_stop,
                             is_waiting_before |-> mon.vehicle_is_waiting,
                             arrivals |-> [v \in engs[e].arrived |-> engines[e].veh[v].since],
                             log |-> run.log, carried |-> run.carried]
    /\ nsteps' = nsteps + 1
    /\ UNCHANGED <<otherVars, graphVars, lane_vehicles>>

NextMonitor ==
    \/ \E e \in EngineIds : SetupAutoReset(e)
    \/ \E e \in EngineIds : AttachTo(e)
    \/ Reset
    \/ \E e \in SteppedEngines : EngineReset(e)
    \/ \E e \in SteppedEngines : EngineStep(e)

SpecMonitor == InitMonitor /\ [][NextMonitor]_vars

----------------------------------------------------------------------------
(* Claims about the monitor *)

IsZero(mean) == mean.num = 0 /\ mean.den # 0

\* C8: on a monitor that was just attached (empty) or on which reset() was
\* just called, get_avg_waiting_time, get_avg_stop_times, get_avg_travel_time
\* and get_avg_queue_length all return exactly 0, none dividing by zero.
C8_AveragesZeroAfterReset ==
    (result.op \in {"reset", "attach_to"} /\ result.err = None) =>
        /\ IsZero(get_avg_waiting_time(mon))
        /\ IsZero(get_avg_stop_times(mon))
        /\ IsZero(get_avg_travel_time(mon))
        /\ IsZero(get_avg_queue_length(mon))

\* the step was taken by an engine on which the monitor's statistics handler
\* is registered, and the time it observed is smaller than the one recorded
ObservedTimeDecrease ==
    /\ result.op = "step"
    /\ mon.attached
    /\ \E i \in DOMAIN engines[result.engine].step_handlers :
           engines[result.engine].step_handlers[i].fn \in {"_on_step", "_on_step_sumo"}
    /\ result.prev_time # <<>>
    /\ result.time < result.prev_time[1]

\* C9: when an attached GlobalMonitor observes at a step a time strictly
\* smaller than at the previous step, reset runs before that step's statistics
\* handler, and the statistics handler finds no entry of the per-vehicle
\* accumulators that was made before the step.
C9_ResetBeforeStatistics ==
    ObservedTimeDecrease =>
        /\ Len(result.log) = 2
        /\ result.log[1] = "reset"
        /\ result.log[2] = "stats"
        /\ result.carried = {}

\* C9 witness: entries were held before a step that observed a smaller time,
\* the reset and then the statistics handler ran, and entries were made anew.
C9_Witness ==
    /\ ObservedTimeDecrease
    /\ result.before # {}
    /\ result.log = <<"reset", "stats">>
    /\ Entries(mon) # {}

ResetHandlers(e) ==
    SelectSeq(engines[e].step_handlers, LAMBDA h : h.fn = "_reset_monitor")

NumResetHandlers == Len(ResetHandlers("E1")) + Len(ResetHandlers("E2"))

\* C10: the auto-reset handler of the monitor is registered on at most one
\* engine, and a setup_auto_reset or attach_to called once auto-reset is set
\* up fails with RuntimeError and registers no step handler on any engine.
C10_SingleAutoResetWiring ==
    /\ NumResetHandlers <= 1
    /\ (result.op \in {"setup_auto_reset", "attach_to"} /\ result.was_set_up) =>
           (result.err = "RuntimeError" /\ result.registered = 0)

\* C10 witness: attached to one engine, then attach_to the other engine failed.
C10_Witness ==
    /\ result.op = "attach_to"
    /\ result.was_set_up
    /\ result.err = "RuntimeError"
    /\ mon.attached
    /\ NumResetHandlers = 1
    /\ \E i \in DOMAIN engines["E1"].step_handlers :
           engines["E1"].step_handlers[i].fn = "_reset_monitor"
    /\ result.engine = "E2"

\* the engine of the last step was not reset since its first step
NoEngineResetSoFar == engines[result.engine].time = nsteps

\* C11: a vehicle whose departure the monitor recorded and which arrives at a
\* later step, with no reset in between, is accounted a travel time equal to
\* the time of the step at which it arrived minus the time of the step at
\* which it departed, and it counts in get_avg_travel_time.
C11_TravelTimeIsStepDifference ==
    (result.op = "step" /\ NoEngineResetSoFar) =>
        \A v \in DOMAIN result.arrivals :
            <<"depart_time", v>> \in result.before =>
                /\ v \in DOMAIN mon.vehicle_arrive_time
                /\ v \in DOMAIN mon.vehicle_depart_time
                /\ mon.vehicle_arrive_time[v] - mon.vehicle_depart_time[v]
                       = result.time - result.arrivals[v]
                /\ get_avg_travel_time(mon).den
                       = Cardinality(DOMAIN mon.vehicle_arrive_time)

\* C12: when the monitor processes a step in which a vehicle arrives whose
\* departure it holds no record of, the step fails with the missing-departure
\* error.
C12_MissingDepartureError ==
    (/\ result.op = "step"
     /\ "stats" \in Range(result.log)
     /\ \E v \in DOMAIN result.arrivals : <<"depart_time", v>> \notin result.before)
        => result.err = "MissingDepartureError"

----------------------------------------------------------------------------
(* TrafficEnvEngine.step(step_num) with handlers that record their calls *)

\* bound: the step handlers registered on the engine
MaxHandlers == 2

\* a simulation step in which no vehicle is inserted
Quiet == [v \in Range(VehicleIds) |-> "stay"]

RECURSIVE Advance(_, _)
Advance(eng, k) == IF k = 0 THEN eng ELSE Advance(Simulate(eng, Quiet), k - 1)

\* _simulation_step(step_num): the SUMO engine takes step_num steps, at least
\* one; the CityFlow engine calls next_step() once whatever step_num is
SimulationStep(eng, step_num) ==
    CASE eng.kind = "cityflow" -> Advance(eng, 1)
      [] eng.kind = "sumo" -> Advance(eng, IF step_num < 1 THEN 1 ELSE step_num)
      [] OTHER -> Advance(eng, step_num)

\* for handler in self.step_handlers: handler(self); a handler that raises
\* ends the call
RECURSIVE CallUserHandlers(_, _, _, _)
CallUserHandlers(hs, i, eng, run) ==
    IF i > Len(hs) THEN run
    ELSE LET called == [run EXCEPT !.log = Append(@, [ev |-> "call", h |-> i, time |-> eng.time])]
         IN  IF hs[i].raises THEN [called EXCEPT !.err = "Exception"]
             ELSE CallUserHandlers(hs, i + 1, eng, called)

\* a plausible slip: the handlers called before the simulation advances
RECURSIVE StepLoopHandlersFirst(_, _, _)
StepLoopHandlersFirst(eng, n, run) ==
    IF n = 0 THEN [engine |-> eng, log |-> run.log, err |-> run.err]
    ELSE LET run1 == CallUserHandlers(eng.step_handlers, 1, eng, run)
             eng1 == SimulationStep(eng, 1)
             run2 == [run1 EXCEPT !.log = Append(@, [ev |-> "advance", h |-> 0, time |-> eng1.time])]
         IN  IF run1.err # None THEN [engine |-> eng, log |-> run1.log, err |-> run1.err]
             ELSE StepLoopHandlersFirst(eng1, n - 1, run2)

\* lines 120-122: for _ in range(step_num): _simulation_step(); the handlers
RECURSIVE StepLoop(_, _, _)
StepLoop(eng, n, run) ==
    IF n = 0 THEN [engine |-> eng, log |-> run.log, err |-> run.err]
    ELSE LET eng1 == SimulationStep(eng, 1)
             run1 == CallUserHandlers(eng.step_handlers, 1, eng1,
                         [run EXCEPT !.log = Append(@, [ev |-> "advance", h |-> 0, time |-> eng1.time])])
         IN  IF run1.err # None THEN [engine |-> eng1, log |-> run1.log, err |-> run1.err]
             ELSE StepLoop(eng1, n - 1, run1)

\* TrafficEnvEngine.step(step_num)
step(eng, step_num) ==
    IF Len(eng.step_handlers) > 0
    THEN StepLoop(eng, step_num, [log |-> <<>>, err |-> None])
    ELSE [engine |-> SimulationStep(eng, step_num), log |-> <<>>, err |-> None]

\* engine.on_step(handler), for a handler that records its call and then
\* returns or raises
OnStep(e, raises) ==
    /\ Len(engines[e].step_handlers) < MaxHandlers
    /\ engines' = RegisterHandler(engines, e, [fn |-> "handler", raises |-> raises])
    /\ result' = [op |-> "on_step", engine |-> e]
    /\ UNCHANGED <<otherVars, graphVars, lane_vehicles, mon, nsteps>>

\* engine.step(n)
StepN(e, n) ==
    /\ engines[e].started
    /\ nsteps + n <= MaxSteps
    /\ LET s == step(engines[e], n) IN
       /\ engines' = [engines EXCEPT ![e] = s.engine]
       /\ result' = [op |-> "step_n", engine |-> e, n |-> n, from_time |-> engines[e].time,
                     time |-> s.engine.time, log |-> s.log, err |-> s.err]
    /\ nsteps' = nsteps + n
    /\ UNCHANGED <<otherVars, graphVars, lane_vehicles, mon>>

NextStep ==
    \/ \E e \in SteppedEngines, r \in BOOLEAN : OnStep(e, r)
    \/ \E e \in SteppedEngines : EngineReset(e)
    \/ \E e \in SteppedEngines, n \in 1..MaxSteps : StepN(e, n)

SpecStep == InitMonitor /\ [][NextStep]_vars

\* the calls step(n) is to make with H handlers from time t0 on: for each of
\* the n steps the advance, then the handlers 1..H in registration order
ExpectedLog(t0, n, H) ==
    [j \in 1..(n * (H + 1)) |->
        LET k == ((j - 1) \div (H + 1)) + 1
            r == (j - 1) % (H + 1)
        IN  [ev |-> IF r = 0 THEN "advance" ELSE "call", h |-> r, time |-> t0 + k]]

IsPrefix(s, t) == Len(s) <= Len(t) /\ s = SubSeq(t, 1, Len(s))

\* C15: with at least one handler registered, step(n) calls every handler
\* once per simulation step, in registration order, after the engine advanced
\* that step and before it advances the next; a handler that raises ends the
\* call there.
C15_HandlersOncePerStepInOrder ==
    (result.op = "step_n" /\ engines[result.engine].step_handlers # <<>>) =>
        LET expected == ExpectedLog(result.from_time, result.n,
                                    Len(engines[result.engine].step_handlers))
        IN  /\ IsPrefix(result.log, expected)
            /\ result.err = None => result.log = expected

\* C15 witness: two handlers were called in each of two steps by one step(2).
C15_Witness ==
    /\ result.op = "step_n"
    /\ result.n = 2
    /\ result.err = None
    /\ Len(engines[result.engine].step_handlers) = 2
    /\ Len(result.log) = 6

----------------------------------------------------------------------------
(* Claims about the statistics the monitor keeps per vehicle *)

\* the last step was processed to its end by the generic handler _on_step,
\* without a reset in that step
GenericStepProcessed ==
    /\ result.op = "step"
    /\ result.err = None
    /\ result.log = <<"stats">>
    /\ \E i \in DOMAIN engines[result.engine].step_handlers :
           engines[result.engine].step_handlers[i].fn = "_on_step"
    /\ mon.engine = result.engine

ActiveVehicles == {v \in Range(VehicleIds) : engines[result.engine].veh[v].status = "running"}

ValueBefore(d, v) == IF v \in DOMAIN d THEN d[v] ELSE 0
WaitingBefore(v) == v \in DOMAIN result.is_waiting_before /\ result.is_waiting_before[v]

\* C16: at every step the generic handler processes, for every active
\* vehicle, also one seen for the first time: below the waiting speed its
\* waiting time grows by one and its stop count by one exactly if it was not
\* waiting at the step before; otherwise it is marked moving and both
\* counters stay.
C16_WaitingAndStops ==
    GenericStepProcessed =>
        \A v \in ActiveVehicles :
            LET speed == engines[result.engine].veh[v].speed
                w0 == ValueBefore(result.waiting_time_before, v)
                s0 == ValueBefore(result.stop_before, v)
            IN  /\ v \in DOMAIN mon.vehicle_waiting_time
                /\ v \in DOMAIN mon.vehicle_stop
                /\ v \in DOMAIN mon.vehicle_is_waiting
                /\ IF speed < SpeedThreshold
                   THEN /\ mon.vehicle_waiting_time[v] = w0 + 1
                        /\ mon.vehicle_stop[v] = s0 + (IF WaitingBefore(v) THEN 0 ELSE 1)
                        /\ mon.vehicle_is_waiting[v]
                   ELSE /\ mon.vehicle_waiting_time[v] = w0
                        /\ mon.vehicle_stop[v] = s0
                        /\ ~mon.vehicle_is_waiting[v]


----------------------------------------------------------------------------
(* Claims about the fallback on a shared lane *)

\* the vehicles of a lane that have a next edge after e, and those ahead of one
Deciders(lane, e) == {i \in DOMAIN lane_vehicles[lane] : HasNextEdge(lane_vehicles[lane][i], e)}
Ahead(lane, i) ==
    {j \in DOMAIN lane_vehicles[lane] :
        lane_vehicles[lane][j].lane_position > lane_vehicles[lane][i].lane_position}
Foremost(lane) == {i \in DOMAIN lane_vehicles[lane] : Ahead(lane, i) = {}}

\* a lane of the queried movement on which the fallback is taken: it feeds
\* several movements, has a queue, every route on it contains e, and a vehicle
\* of greatest lane_position has e as the last entry of its route
FallbackCase(lane, e) ==
    /\ Cardinality(MovementsFrom(lane)) > 1
    /\ Queued(lane) # {}
    /\ \A i \in DOMAIN lane_vehicles[lane] : e \in Range(lane_vehicles[lane][i].route)
    /\ \E i \in Foremost(lane) : ~HasNextEdge(lane_vehicles[lane][i], e)

----------------------------------------------------------------------------
(* Claims about the lists the built graph keeps *)

NoDuplicates(s) == \A i, j \in DOMAIN s : i # j => s[i] # s[j]

\* the lanes of an edge that have at least one link into another edge
LanesInto(from_edge, to_edge) ==
    {l \in Range(EdgeLanes[from_edge]) :
        \E t \in Range(LaneIds) : <<l, t>> \in links /\ ParentEdge[t] = to_edge}

\* C18: the from_lanes of every movement of a built graph are exactly the
\* lanes of its from-edge with a link into its to-edge, each listed once,
\* and get_movements_by_lane lists no movement twice.
C18_FromLanesListedOnce ==
    stage = "built" =>
        /\ \A m \in Movements :
               /\ Range(FromLanes(m)) = LanesInto(FromEdge(m), ToEdge(m))
               /\ NoDuplicates(FromLanes(m))
        /\ \A l \in Range(LaneIds) : NoDuplicates(get_movements_by_lane(l))


\* a phase permits a movement: one of its available links leads from a lane
\* of the movement's from-edge to a lane of its to-edge
Permits(p, m) ==
    \E l \in grants[p] : ParentEdge[l[1]] = FromEdge(m) /\ ParentEdge[l[2]] = ToEdge(m)

\* C19: in a built graph a movement is among get_allowed_movements_by_phase(p)
\* exactly when p permits it; a movement that only shares a from-lane with a
\* granted link into another edge is not listed.
C19_PhaseListsPermittedMovements ==
    stage = "built" =>
        \A p \in Range(PhaseIds), m \in Movements :
            m \in Range(get_allowed_movements_by_phase(p)) <=> Permits(p, m)

\* C20: in a built graph a movement is listed under light L exactly when its
\* traffic_light is L, so under at most one light, and under none when its
\* traffic_light is None.
C20_ListedUnderOwnLight ==
    stage = "built" =>
        \A m \in Movements, L \in Range(LightIds) :
            m \in Range(get_movements_by_traffic_light(L)) <=> mrn.traffic_light[m] = L


----------------------------------------------------------------------------
(* TrafficLight.uncontrolled_links *)

\* TrafficLight.controlled_links: the lights control the lane-links of the net
controlled_links(tl) ==
    Flatten([i \in DOMAIN LaneIds |->
        [j \in DOMAIN lane_links(LaneIds[i]) |-> <<LaneIds[i], lane_links(LaneIds[i])[j]>>]])

\* lines 72-76: a link absent from some phase's available_links counts as
\* controlled; LaneLink.__eq__ compares the two lane ids
IsControlled(tl, link) ==
    \E i \in DOMAIN LightPhases[tl] : link \notin Range(available_links(LightPhases[tl][i]))

\* lines 70-78
ComputeUncontrolled(tl) ==
    SelectSeq(controlled_links(tl), LAMBDA link : ~IsControlled(tl, link))

\* the property: the cached list if there is one, else the computed list
uncontrolled_links(tl) ==
    IF cached_uncontrolled[tl].cached
    THEN cached_uncontrolled[tl].val
    ELSE ComputeUncontrolled(tl)

\* a caller reads tl.uncontrolled_links
ReadUncontrolledLinks(tl) ==
    /\ stage = "net"
    /\ cached_uncontrolled' =
           [cached_uncontrolled EXCEPT ![tl] = [cached |-> TRUE, val |-> uncontrolled_links(tl)]]
    /\ result' = [op |-> "uncontrolled_links", tl |-> tl,
                  before |-> cached_uncontrolled[tl],
                  granted |-> [i \in DOMAIN LightPhases[tl] |-> grants[LightPhases[tl][i]]],
                  out |-> uncontrolled_links(tl)]
    /\ UNCHANGED <<graphVars, lane_vehicles, monVars, portVars>>

NextLight ==
    \/ \E p \in Range(PhaseIds), l \in LinkUniverse : GrantLink(p, l)
    \/ \E tl \in Range(LightIds) : ReadUncontrolledLinks(tl)

SpecLight == InitQueue /\ [][NextLight]_vars

\* C21: uncontrolled_links gives exactly the controlled links that no phase of
\* the light grants; it is computed at the first read, and every later read
\* gives the list of the first one.
C21_UncontrolledLinksGrantedInNoPhase ==
    result.op = "uncontrolled_links" =>
        IF result.before.cached
        THEN result.out = result.before.val
        ELSE /\ NoDuplicates(result.out)
             /\ Range(result.out) =
                    {l \in links : \A i \in DOMAIN result.granted : l \notin result.granted[i]}


----------------------------------------------------------------------------
(* Claims about the number of simulation steps step(n) takes *)

\* a handler that does nothing
NoOpHandler == [fn |-> "handler", raises |-> FALSE]

\* the simulation's part of an engine: everything but the handler list
SimulationState(eng) == [eng EXCEPT !.step_handlers = <<>>]

\* C22: for every engine and every n >= 1, step(n) advances the simulation by
\* exactly n steps with or without step handlers: the simulation state after
\* step(n) without handlers is the one after step(n) with a handler that does
\* nothing.
C22_StepCountIndependentOfHandlers ==
    /\ (result.op = "step_n" /\ result.err = None) =>
           result.time = result.from_time + result.n
    /\ \A e \in SteppedEngines, n \in 1..MaxSteps :
           engines[e].started =>
               SimulationState(step([engines[e] EXCEPT !.step_handlers = <<>>], n).engine)
                   = SimulationState(step([engines[e] EXCEPT !.step_handlers = <<NoOpHandler>>], n).engine)


----------------------------------------------------------------------------
(* Claims about the automatic reset after an engine reset *)

\* the last step was the first one after engine.reset(): reset() restarts the
\* simulation at time 0 and a step adds one
FirstStepAfterEngineReset == result.op = "step" /\ result.time = 1

\* the engine was reset between two consecutive steps that the attached
\* monitor's handlers were called at
ResetBetweenObservedSteps ==
    /\ FirstStepAfterEngineReset
    /\ mon.attached
    /\ \E i \in DOMAIN engines[result.engine].step_handlers :
           engines[result.engine].step_handlers[i].fn \in {"_on_step", "_on_step_sumo"}
    /\ result.prev_time # <<>>

\* C23: with auto-reset set up, when the engine was reset between two
\* consecutive steps, the monitor's reset() runs before the statistics of the
\* first step after the engine reset are taken, also when the time at that
\* step is not smaller than the last recorded time.
C23_ResetAfterEveryEngineReset ==
    ResetBetweenObservedSteps =>
        /\ Len(result.log) = 2
        /\ result.log[1] = "reset"
        /\ result.log[2] = "stats"
        /\ result.carried = {}


----------------------------------------------------------------------------
(* Claims about an attach_to that fails *)

\* C25: an attach_to that fails because auto-reset is already set up leaves
\* the monitor as it was: its engine reference and its accumulators are those
\* of before the call, so the handlers registered on the first engine keep
\* reading the first engine.
C25_FailedAttachLeavesMonitor ==
    (result.op = "attach_to" /\ result.err = "RuntimeError") =>
        /\ mon.engine = result.mon_before.engine
        /\ mon = result.mon_before


----------------------------------------------------------------------------
(* SiliconSumoEngine._simulation_step and the lane cache it leaves *)

\* _cache_lane_vehicle_ids after clear()
EmptyLaneCache == [l \in Range(LaneIds) |-> <<>>]

\* the simulation's vehicles drive on lane a1 (VAR_LANE_ID of the subscription)
DrivableId(v) == "a1"

\* lines 194-211: every vehicle of the subscription results is appended to
\* the list of its lane
CacheSubscriptionResults(eng, cache) ==
    LET ids == SelectSeq(VehicleIds, LAMBDA v : eng.veh[v].status = "running") IN
    FoldSeq(LAMBDA c, v : [c EXCEPT ![DrivableId(v)] = Append(@, v)], cache, ids)

\* lines 186-214: the loop of step_num simulation steps; chs[k] is what the
\* simulation does with the vehicles in the k-th of them
RECURSIVE SumoStepLoop(_, _, _)
SumoStepLoop(eng, cache, chs) ==
    IF chs = <<>> THEN [engine |-> eng, cache |-> cache]
    ELSE LET eng1 == Simulate(eng, Head(chs)) IN
         SumoStepLoop(eng1, CacheSubscriptionResults(eng1, cache), Tail(chs))

\* lines 181-214: _simulation_step(step_num) clears the caches once, then loops
SumoSimulationStep(eng, cache, chs) == SumoStepLoop(eng, EmptyLaneCache, chs)

\* TrafficEnvEngine.step on the SUMO engine, with handlers that do nothing:
\* one _simulation_step() per step with handlers, one _simulation_step(n) without
RECURSIVE SumoStepWithHandlers(_, _, _)
SumoStepWithHandlers(eng, cache, chs) ==
    IF chs = <<>> THEN [engine |-> eng, cache |-> cache]
    ELSE LET s == SumoSimulationStep(eng, cache, <<Head(chs)>>) IN
         SumoStepWithHandlers(s.engine, s.cache, Tail(chs))

sumo_step(eng, cache, chs) ==
    IF Len(eng.step_handlers) > 0
    THEN SumoStepWithHandlers(eng, cache, chs)
    ELSE SumoSimulationStep(eng, cache, chs)

\* what the simulation may do in n consecutive steps from eng on
RECURSIVE ChoiceRuns(_, _)
ChoiceRuns(eng, n) ==
    IF n = 0 THEN {<<>>}
    ELSE UNION {{<<ch>> \o rest : rest \in ChoiceRuns(Simulate(eng, ch), n - 1)} :
                   ch \in Choices(eng)}

\* the lane cache the last step call left; a reset clears it (line 131 ff.)
LaneCache == IF result.op = "sumo_step" THEN result.cache ELSE EmptyLaneCache

\* SiliconSumoEngine.get_lane_vehicle_ids
sumo_get_lane_vehicle_ids(lane) == LaneCache[lane]

\* engine.step(n) on the SUMO engine
SumoStep(e, n) ==
    /\ engines[e].started
    /\ engines[e].kind = "sumo"
    /\ nsteps + n <= MaxSteps
    /\ \E chs \in ChoiceRuns(engines[e], n) :
           LET s == sumo_step(engines[e], LaneCache, chs) IN
           /\ engines' = [engines EXCEPT ![e] = s.engine]
           /\ result' = [op |-> "sumo_step", engine |-> e, n |-> n, cache |-> s.cache]
    /\ nsteps' = nsteps + n
    /\ UNCHANGED <<otherVars, graphVars, lane_vehicles, mon>>

InitSumo == InitMonitor /\ engines["E1"].kind = "sumo"

NextSumo ==
    \/ \E e \in SteppedEngines : OnStep(e, FALSE)
    \/ \E e \in SteppedEngines : EngineReset(e)
    \/ \E e \in SteppedEngines, n \in 1..MaxSteps : SumoStep(e, n)

SpecSumo == InitSumo /\ [][NextSumo]_vars

\* the vehicles that are on a lane in the engine's latest simulation step
OnLane(eng, lane) ==
    {v \in Range(VehicleIds) : eng.veh[v].status = "running" /\ DrivableId(v) = lane}

\* C24: after step(n) on the SUMO engine, with or without handlers,
\* get_lane_vehicle_ids(lane) is the snapshot of the latest simulation step:
\* each vehicle that is on the lane in that step exactly once, and no vehicle
\* that was on the lane only in an earlier step.
C24_LaneSnapshotOfLatestStep ==
    result.op = "sumo_step" =>
        \A lane \in Range(LaneIds) :
            /\ NoDuplicates(sumo_get_lane_vehicle_ids(lane))
            /\ Range(sumo_get_lane_vehicle_ids(lane)) = OnLane(engines[result.engine], lane)


----------------------------------------------------------------------------
(* Claims about the attribution of a lane's queue over all movements *)

\* what lane adds to get_movement_sum_queue_length(m): the contributions of
\* the turns of the loop over m's from_lanes that visit it
LaneAmount(m, lane) ==
    LET cs == Contributions(m, FromLanes(m)) IN
    FoldSeq(LAMBDA acc, i : IF FromLanes(m)[i] = lane THEN acc + cs[i].n ELSE acc,
            0, [i \in DOMAIN cs |-> i])

NoQueueError == \A m \in Movements : ~IsError(get_movement_sum_queue_length(m))

\* C26: on a snapshot for which no queue estimate raises an error, the queue
\* of a lane is attributed at most once: over all movements, what the lane
\* contributes to their sums is at most the lane's queue length.
C26_LaneQueueAttributedOnce ==
    (result.op = "sum_queue" /\ NoQueueError) =>
        \A lane \in Range(LaneIds) :
            FoldSeq(LAMBDA acc, m : acc + LaneAmount(m, lane), 0,
                    [m \in DOMAIN mrn.movements |-> m])
                <= get_lane_queue_length(lane)


----------------------------------------------------------------------------
(* The movement graph of a road net whose edge ids contain '_' *)

\* bound: the movements of the named road net
MaxNamedMovements == 2

\* edge ids of the edge bank; every edge has one lane, <edge id>#0
NamedEdgeIds == {"a", "a_b", "b_c", "c"}
NamedLane(e) == e \o "#0"

NamedPairs == {p \in NamedEdgeIds \X NamedEdgeIds : p[1] # p[2]}

\* lines 28-41: one movement per (edge, to-edge) group, the groups of an edge
\* one after the other
NamedMovementLists ==
    {s \in UNION {[1..n -> NamedPairs] : n \in 1..MaxNamedMovements} :
        /\ \A i, j \in DOMAIN s : i # j => s[i] # s[j]
        /\ \A i, j, k \in DOMAIN s : (i < j /\ j < k /\ s[i][1] = s[k][1]) => s[j][1] = s[i][1]}

NamedMovements(s) ==
    [i \in DOMAIN s |->
        [from_edge |-> s[i][1], to_edge |-> s[i][2], from_lanes |-> <<NamedLane(s[i][1])>>]]

\* lines 39-53 and 73-77 for these movements; the net has no granted link
build_named_movements(ms) ==
    [movements |-> ms,
     traffic_light |-> BuildTrafficLight(ms, <<>>),
     movement_bank |-> BuildBank(ms),
     lane_movement_map |-> BuildLaneMap(ms),
     from_edge_movement_map |-> BuildFromEdgeMap(ms),
     traffic_light_movement_map |-> BuildLightMap(<<>>),
     phase_movement_map |-> BuildPhaseMap(<<>>)]

\* MovementRoadNet(road_net) for a road net that yields the movements of s
BuildNamed(s) ==
    /\ stage = "net"
    /\ stage' = "built"
    /\ mrn' = build_named_movements(NamedMovements(s))
    /\ result' = [op |-> "build", err |-> None]
    /\ UNCHANGED <<otherVars, links, grants, lane_vehicles, monVars>>

NextNamed ==
    \/ \E s \in NamedMovementLists : BuildNamed(s)
    \/ \E f, t \in NamedEdgeIds : QueryMovement(f, t)

SpecNamed == InitGraph /\ [][NextNamed]_vars

\* the movements a table lists
ListedIn(table) == UNION {Range(table[i].val) : i \in DOMAIN table}

ListedMovements ==
    ListedIn(mrn.lane_movement_map) \cup ListedIn(mrn.from_edge_movement_map)
        \cup ListedIn(mrn.traffic_light_movement_map) \cup ListedIn(mrn.phase_movement_map)

\* C27: whatever the edge ids, every movement a table of the built graph lists
\* is the movement get_movement(its from-edge, its to-edge) returns, and
\* get_movement(f, t) returns no movement that does not go from f to t.
C27_GetMovementAgreesWithTables ==
    /\ stage = "built" =>
           \A m \in ListedMovements : get_movement(FromEdge(m), ToEdge(m)) = <<m>>
    /\ result.op = "get_movement" =>
           \A i \in DOMAIN result.out :
               /\ FromEdge(result.out[i]) = result.from_edge
               /\ ToEdge(result.out[i]) = result.to_edge


----------------------------------------------------------------------------
(* Claims about the generic handler's counters over steps and resets *)

\* the statistics are kept by the generic handler _on_step, not by the SUMO one
GenericHandlerOnly ==
    \A e \in EngineIds : \A i \in DOMAIN engines[e].step_handlers :
        engines[e].step_handlers[i].fn # "_on_step_sumo"

\* the last action was a step in which no reset ran
StepWithoutReset == result.op = "step" /\ \A i \in DOMAIN result.log : result.log[i] # "reset"

\* C28: with the generic handler, for every tracked vehicle the stop count is
\* at most the waiting time and both are non-negative; over a step without
\* reset neither decreases; the waiting-time, stop-count and waiting-flag maps
\* have the same keys, all of them keys of the depart-time map.
C28_CountersConsistent ==
    GenericHandlerOnly =>
        /\ DOMAIN mon.vehicle_stop = DOMAIN mon.vehicle_waiting_time
        /\ DOMAIN mon.vehicle_is_waiting = DOMAIN mon.vehicle_waiting_time
        /\ DOMAIN mon.vehicle_waiting_time \subseteq DOMAIN mon.vehicle_depart_time
        /\ \A v \in DOMAIN mon.vehicle_waiting_time :
               /\ 0 <= mon.vehicle_stop[v]
               /\ mon.vehicle_stop[v] <= mon.vehicle_waiting_time[v]
        /\ StepWithoutReset =>
               \A v \in DOMAIN result.waiting_time_before :
                   /\ v \in DOMAIN mon.vehicle_waiting_time
                   /\ result.waiting_time_before[v] <= mon.vehicle_waiting_time[v]
                   /\ result.stop_before[v] <= mon.vehicle_stop[v]

\* C28 witness: the generic handler followed a vehicle over a stop of two
\* steps: one stop, two steps of waiting, after a step that found its entries.
C28_Witness ==
    /\ GenericHandlerOnly
    /\ StepWithoutReset
    /\ "v1" \in DOMAIN result.waiting_time_before
    /\ "v1" \in DOMAIN mon.vehicle_waiting_time
    /\ mon.vehicle_stop["v1"] = 1
    /\ mon.vehicle_waiting_time["v1"] = 2


----------------------------------------------------------------------------
(* Upstream and downstream movements *)

\* Edge.from_junction and Edge.to_junction: e1 leads into junction J1, where
\* e3 starts and e2 starts and ends, so every lane-link of the net joins two
\* edges that meet at J1
FromJunction == [e1 |-> "J0", e2 |-> "J1", e3 |-> "J1"]
ToJunction == [e1 |-> "J1", e2 |-> "J1", e3 |-> "J2"]

\* Junction.in_coming_edges as sumo_road_net.py fills it (lines 44-45): the
\* edges that end at the junction
in_coming_edges(j) == SelectSeq(EdgeIds, LAMBDA e : ToJunction[e] = j)

\* lines 164-174
get_downstream_movements(m) == get_movements_by_edge(mrn.movements[m].to_edge)

\* a plausible slip: the test of line 192 left out
UpstreamWithoutEdgeTest(m) ==
    Flatten([i \in DOMAIN in_coming_edges(FromJunction[mrn.movements[m].from_edge]) |->
        get_movements_by_edge(in_coming_edges(FromJunction[mrn.movements[m].from_edge])[i])])

\* lines 177-194: the movements from the edges that come into the from-edge's
\* start junction and lead to the from-edge
get_upstream_movements(m) ==
    LET upstream_edges == in_coming_edges(FromJunction[mrn.movements[m].from_edge]) IN
    Flatten([i \in DOMAIN upstream_edges |->
        SelectSeq(get_movements_by_edge(upstream_edges[i]),
                  LAMBDA other : mrn.movements[other].to_edge = mrn.movements[m].from_edge)])

QueryStreams(m) ==
    /\ stage = "built"
    /\ result' = [op |-> "streams", m |-> m,
                  down |-> get_downstream_movements(m), up |-> get_upstream_movements(m)]
    /\ UNCHANGED <<otherVars, graphVars, lane_vehicles, monVars>>

NextStreams ==
    \/ \E l \in LinkUniverse : AddLink(l)
    \/ Build
    \/ \E m \in Movements : QueryStreams(m)

SpecStreams == InitGraph /\ [][NextStreams]_vars

----------------------------------------------------------------------------
(* get_unique_port called from several threads *)

\* bound: the calls made, over all threads
MaxCalls == 3

\* get_unique_port.py line 9: the greatest value the counter may hold before
\* it is set back
PortLimit == 65535

NumCalls ==
    Cardinality({t \in Threads : calls[t].pc # "idle"})
        + Cardinality({<<t, i>> \in Threads \X (1..MaxCalls) : i \in DOMAIN calls[t].returned})

\* a thread calls get_unique_port()
CallGetUniquePort(t) ==
    /\ calls[t].pc = "idle"
    /\ NumCalls < MaxCalls
    /\ calls' = [calls EXCEPT ![t].pc = "acquire"]
    /\ UNCHANGED <<graphVars, lane_vehicles, monVars, cached_uncontrolled, port_factory, lock, result>>

\* line 8: with _lock, entered once the lock is free
AcquireLock(t) ==
    /\ calls[t].pc = "acquire"
    /\ lock = None
    /\ lock' = t
    /\ calls' = [calls EXCEPT ![t].pc = "locked"]
    /\ UNCHANGED <<graphVars, lane_vehicles, monVars, cached_uncontrolled, port_factory, result>>

\* lines 9-12, under the lock: the counter is set back if it passed the limit,
\* then incremented
IncrementPortFactory(t) ==
    /\ calls[t].pc = "locked"
    /\ lock = t
    /\ port_factory' = (IF port_factory > PortLimit THEN FirstPortFactory ELSE port_factory) + 1
    /\ calls' = [calls EXCEPT ![t].pc = "release"]
    /\ UNCHANGED <<graphVars, lane_vehicles, monVars, cached_uncontrolled, lock, result>>

\* the end of the with block: the lock is released
ReleaseLock(t) ==
    /\ calls[t].pc = "release"
    /\ lock = t
    /\ lock' = None
    /\ calls' = [calls EXCEPT ![t].pc = "return"]
    /\ UNCHANGED <<graphVars, lane_vehicles, monVars, cached_uncontrolled, port_factory, result>>

\* line 13: return _port_factory, read after the lock was released
ReturnPort(t) ==
    /\ calls[t].pc = "return"
    /\ calls' = [calls EXCEPT ![t] = [pc |-> "idle", returned |-> Append(@.returned, port_factory)]]
    /\ result' = [op |-> "get_unique_port", thread |-> t, out |-> port_factory]
    /\ UNCHANGED <<graphVars, lane_vehicles, monVars, cached_uncontrolled, port_factory, lock>>

NextPort ==
    \/ \E t \in Threads : CallGetUniquePort(t)
    \/ \E t \in Threads : AcquireLock(t)
    \/ \E t \in Threads : IncrementPortFactory(t)
    \/ \E t \in Threads : ReleaseLock(t)
    \/ \E t \in Threads : ReturnPort(t)

SpecPort == InitGraph /\ [][NextPort]_vars

\* the calls that returned, as <<thread, number of the call>>
ReturnedCalls == {c \in Threads \X (1..MaxCalls) : c[2] \in DOMAIN calls[c[1]].returned}

\* C30: under any interleaving of concurrent get_unique_port() calls no two
\* calls return the same port, and every port returned is at most 65535.
C30_PortsUnique ==
    /\ \A c, d \in ReturnedCalls :
           c # d => calls[c[1]].returned[c[2]] # calls[d[1]].returned[d[2]]
    /\ \A c \in ReturnedCalls :
           /\ calls[c[1]].returned[c[2]] > 0
           /\ calls[c[1]].returned[c[2]] <= PortLimit

====
